---------------------------- MODULE Spec2Model ----------------------------
(***************************************************************************)
(* A model of ChanStockBot/stock_fetcher.py: the volatility estimator      *)
(* (get_volatility), the stock filter (filter_cheap_stocks), the batch     *)
(* scanner (get_cheap_stocks) and the analysis formatter                   *)
(* (generate_detailed_analysis), with the formatting loop of bot.py.       *)
(*                                                                         *)
(* Numbers.  Prices, ratios and percentages are fixed-point integers in    *)
(* hundredths (price 95.50 is 9550, return on equity 0.05 is 5, P/E 45 is  *)
(* 4500).  marketCap is a whole number of currency units, as the provider  *)
(* reports it.  A provider field is a tagged value: Num(n), or None for    *)
(* Python's None; a key the provider omits is not in DOMAIN info.          *)
(*                                                                         *)
(* Four specifications share the variables:                                *)
(*   Spec        get_cheap_stocks() followed by bot.py's formatting loop   *)
(*   FilterSpec  one call of filter_cheap_stocks(symbol)                   *)
(*   VolSpec     one call of get_volatility(stock_ticker)                  *)
(*   FormatSpec  generate_detailed_analysis(stock) on arbitrary stocks     *)
(***************************************************************************)
EXTENDS Integers, Sequences, FiniteSets, TLC

VARIABLES
    \* get_volatility
    vpc,        \* "idle" | "loop" | "returned"
    attempt,    \* the for loop's attempt, 0..3
    calls,      \* one entry per history() call: -1 when it raised, else len(hist)
    hist,       \* the frame the last history() call returned
    vol,        \* the value returned (tagged), NoValue before the return
    \* filter_cheap_stocks
    fpc,        \* "idle" | "loop" | "tried" | "returned"
    symbol,     \* the argument
    vi,         \* index into symbol_variants of the next variant, 1..5
    info,       \* stock.info of the variant tried last
    outcome,    \* how the last loop iteration ended
    qualified,  \* outcome of the first variant that had both essential keys
    late,       \* a variant was looked up after one had qualified
    result,     \* the value returned: a candidate or None
    \* get_cheap_stocks and the formatting loop of bot.py
    pc,         \* "idle" | "fetch" | "batch" | "running" | "sort" | "done"
    symbols,    \* what fetch_nse_symbols() returned
    limit,      \* the argument
    provider,   \* the Quote Provider's answers for each symbol of the universe
    i,          \* the batch loop's offset (0-based, as range(0, len, batch_size))
    tasks,      \* the futures of the current batch: "queued" | "running" | "done"
    completed,  \* positions of the current batch in completion order
    started,    \* universe positions whose Filter evaluation has started
    results,    \* the accumulated candidates
    ret,        \* the list returned
    reports     \* bot.py: the analysis of each returned stock so far

vars == <<vpc, attempt, calls, hist, vol, fpc, symbol, vi, info, outcome, qualified,
          late, result, pc, symbols, limit, provider, i, tasks, completed,
          started, results, ret, reports>>

volVars == <<vpc, attempt, calls, hist, vol>>
filterVars == <<fpc, symbol, vi, info, outcome, qualified, late, result>>
scanVars == <<pc, symbols, limit, provider, i, tasks, completed, started,
              results, ret, reports>>

---------------------------------------------------------------------------
(* Values *)

Num(n) == [t |-> "num", v |-> n]
None == [t |-> "none"]
PosInf == [t |-> "inf"]
NoValue == [t |-> "unset"]
NA == [t |-> "str", v |-> "N/A"]

IsNum(x) == x.t = "num"

\* dict.get(key, default)
get(d, key, default) == IF key \in DOMAIN d THEN d[key] ELSE default

\* x < n and x > n for a provider value x and a number n; Python raises
\* TypeError when x is None.
Raises(x) == x.t = "none"
Lt(x, n) == x.t = "num" /\ x.v < n
Gt(x, n) == x.t = "inf" \/ (x.t = "num" /\ x.v > n)

\* rounding division of a by b > 0, to the nearest integer
RoundDiv(a, b) == (2 * a + b) \div (2 * b)

RECURSIVE SumSeq(_)
SumSeq(s) == IF s = <<>> THEN 0 ELSE Head(s) + SumSeq(Tail(s))

RECURSIVE SqrtIn(_, _, _)
SqrtIn(n, lo, hi) ==
    IF lo >= hi THEN lo
    ELSE LET mid == (lo + hi + 1) \div 2
         IN  IF mid * mid <= n THEN SqrtIn(n, mid, hi) ELSE SqrtIn(n, lo, mid - 1)

\* the integer square root (46340 is the largest root of a 32-bit integer)
Isqrt(n) == SqrtIn(n, 0, 46340)

---------------------------------------------------------------------------
(* get_volatility (stock_fetcher.py:8-36) *)

MaxSeriesLen == 6
ClosePrices == {100, 110}

\* A history() call raises, or returns a frame of daily closes.
HistRaise == [ok |-> FALSE, close |-> <<>>]
HistOf(c) == [ok |-> TRUE, close |-> c]
PriceSeries == UNION {[1..n -> ClosePrices] : n \in 0..MaxSeriesLen}
HistoryAnswers == {HistRaise} \cup {HistOf(c) : c \in PriceSeries}

\* a faulty variant of Sufficient: 4 rows would do
SufficientLoose(h) == Len(h.close) >= 4

\* len(hist) >= 5
Sufficient(h) == Len(h.close) >= 5

\* hist['Close'].pct_change().dropna(), in units of 1/10000
pct_change(close) ==
    [t \in 1..(Len(close) - 1) |->
        RoundDiv((close[t + 1] - close[t]) * 10000, close[t])]

\* daily_returns.std(): the sample standard deviation, squared
SampleVariance(r) ==
    LET n == Len(r)
        mean == RoundDiv(SumSeq(r), n)
        sq == [t \in 1..n |-> (r[t] - mean) * (r[t] - mean)]
    IN  RoundDiv(SumSeq(sq), n - 1)

\* round(daily_returns.std() * (252 ** 0.5) * 100, 1), in hundredths of a
\* percent (so a multiple of 10)
Volatility(close) ==
    LET pct == Isqrt(252 * SampleVariance(pct_change(close)))
    IN  Num(10 * RoundDiv(pct, 10))

\* range(3)
Attempts == 3

\* no call of get_volatility is under way
VolIdle ==
    /\ vpc = "idle"
    /\ attempt = 0
    /\ calls = <<>>
    /\ hist = HistRaise
    /\ vol = NoValue

\* history() raises: the except clause sleeps and the loop goes on; after the
\* last attempt the function returns 0.0 (lines 29-33).
HistoryRaises ==
    /\ vpc = "loop"
    /\ attempt < Attempts
    /\ calls' = Append(calls, -1)
    /\ attempt' = attempt + 1
    /\ UNCHANGED hist
    /\ IF attempt + 1 < Attempts
         THEN UNCHANGED <<vpc, vol>>
         ELSE vpc' = "returned" /\ vol' = Num(0)
    /\ UNCHANGED <<filterVars, scanVars>>

\* history() returns at least 5 rows: the volatility is returned (lines 24-27).
HistorySufficient ==
    /\ vpc = "loop"
    /\ attempt < Attempts
    /\ \E h \in HistoryAnswers \ {HistRaise} :
         /\ Sufficient(h)
         /\ hist' = h
         /\ calls' = Append(calls, Len(h.close))
         /\ vol' = Volatility(h.close)
    /\ vpc' = "returned"
    /\ UNCHANGED attempt
    /\ UNCHANGED <<filterVars, scanVars>>

\* history() returns fewer than 5 rows: break, then return 0.0 (lines 28, 33).
HistoryShort ==
    /\ vpc = "loop"
    /\ attempt < Attempts
    /\ \E h \in HistoryAnswers \ {HistRaise} :
         /\ ~Sufficient(h)
         /\ hist' = h
         /\ calls' = Append(calls, Len(h.close))
    /\ vol' = Num(0)
    /\ vpc' = "returned"
    /\ UNCHANGED attempt
    /\ UNCHANGED <<filterVars, scanVars>>

VolNext ==
    \/ HistoryRaises
    \/ HistorySufficient
    \/ HistoryShort

\* get_volatility as a function of the provider's answers to the successive
\* history() calls
RECURSIVE VolatilityFrom(_, _)
VolatilityFrom(answers, n) ==
    IF n >= Attempts THEN Num(0)
    ELSE LET h == answers[n + 1]
         IN  IF ~h.ok THEN VolatilityFrom(answers, n + 1)
             ELSE IF Sufficient(h) THEN Volatility(h.close)
             ELSE Num(0)

get_volatility(answers) == VolatilityFrom(answers, 0)

---------------------------------------------------------------------------
(* filter_cheap_stocks (stock_fetcher.py:43-89) *)

\* A ticker string: the exchange's symbol (numbered), its suffix, and whether
\* lower() has been applied.  fetch_nse_symbols builds f"{symbol}.NS".
Ticker(base, sfx) == [base |-> base, sfx |-> sfx, lower |-> FALSE]

\* str.replace(".NS", new)
replace_NS(sym, new) == IF sym.sfx = ".NS" THEN [sym EXCEPT !.sfx = new] ELSE sym

\* the symbol as given, ".NS" stripped, ".NS" replaced by ".BO", lowercased
symbol_variants(sym) ==
    << sym, replace_NS(sym, ""), replace_NS(sym, ".BO"), [sym EXCEPT !.lower = TRUE] >>

\* What the provider can say of a key; Omitted marks a key left out.
Omitted == [t |-> "omitted"]

MakeInfo(c) == [key \in {x \in DOMAIN c : c[x] # Omitted} |-> c[key]]

Fields(p, pe, de, roe, cr, mc) ==
    MakeInfo([currentPrice |-> p, trailingPE |-> pe, debtToEquity |-> de,
              returnOnEquity |-> roe, currentRatio |-> cr, marketCap |-> mc])

\* the essential keys omitted, null, and on either side of the price gate,
\* with the other keys all present or all omitted
EssentialCases ==
    { Fields(p, pe, o, o, o, o) :
        p \in {Omitted, None, Num(1000), Num(1001), Num(9999), Num(10000)},
        pe \in {Omitted, None, Num(1000), Num(4500)},
        o \in {Omitted, Num(100)} }

\* inside the price gate: each of the other keys omitted, null, or a number
CriteriaCases ==
    { Fields(Num(5000), pe, de, roe, cr, mc) :
        pe \in {Num(1000), Num(4500)},
        de \in {Omitted, None, Num(30)},
        roe \in {Omitted, None, Num(8)},
        cr \in {Omitted, None, Num(50)},
        mc \in {Omitted, None, Num(1000)} }

\* inside the price gate, P/E failing: the other keys at their thresholds
ThresholdCases ==
    { Fields(Num(5000), Num(4500), de, roe, cr, mc) :
        de \in {Num(199), Num(200)},
        roe \in {Num(5), Num(6)},
        cr \in {Num(60), Num(61)},
        mc \in {Num(300), Num(301)} }

Snapshots == EssentialCases \cup CriteriaCases \cup ThresholdCases

NoInfo == [key \in {} |-> None]

\* yf.Ticker(sym).info raises, or is a dict
LookupFail == [ok |-> FALSE, info |-> NoInfo]
LookupOk(d) == [ok |-> TRUE, info |-> d]
InfoAnswers == {LookupFail} \cup {LookupOk(d) : d \in Snapshots}

\* all(k in info for k in ['currentPrice', 'trailingPE'])
HasEssentials(d) == {"currentPrice", "trailingPE"} \subseteq DOMAIN d

\* a faulty variant of PriceGate: 10 <= price <= 100
PriceGateInclusive(price) == 1000 <= price.v /\ price.v <= 10000

\* 10 < price < 100
PriceGate(price) == 1000 < price.v /\ price.v < 10000

\* the operands of the five comparisons, with info.get's defaults
FilterOperands(d) ==
    << get(d, "trailingPE", PosInf), get(d, "debtToEquity", Num(200)),
       get(d, "returnOnEquity", Num(0)), get(d, "currentRatio", Num(80)),
       get(d, "marketCap", Num(0)) >>

\* the list `filters`
filters(d) ==
    LET x == FilterOperands(d)
    IN  << Lt(x[1], 4500), Lt(x[2], 200), Gt(x[3], 5), Gt(x[4], 60), Gt(x[5], 300) >>

\* sum(filters) >= 2
EnoughFilters(d) == Cardinality({j \in 1..5 : filters(d)[j]}) >= 2

\* How one iteration of the loop over symbol_variants ends.
TryVariant(ans) ==
    IF ~ans.ok THEN "lookup_failed"
    ELSE IF ~HasEssentials(ans.info) THEN "missing"
    ELSE IF Raises(ans.info["currentPrice"]) THEN "raised"
    ELSE IF ~PriceGate(ans.info["currentPrice"]) THEN "gate"
    ELSE IF \E j \in 1..5 : Raises(FilterOperands(ans.info)[j]) THEN "raised"
    ELSE IF EnoughFilters(ans.info) THEN "admitted"
    ELSE "rejected"

Digit == <<"0", "1", "2", "3", "4", "5", "6", "7", "8", "9">>

RECURSIVE DigitsOf(_)
DigitsOf(n) ==
    IF n < 10 THEN <<Digit[n + 1]>>
    ELSE DigitsOf(n \div 10) \o <<Digit[(n % 10) + 1]>>

\* f"{m / 100:.1f}" for a whole number m >= 0: one decimal, to nearest (a
\* hundredths digit of 5 goes to the even tenth, as for the exact .25, .75)
Format1f(m) ==
    LET r == m % 100
        down == r \div 10
        up == (r % 10 > 5) \/ (r % 10 = 5 /\ down % 2 = 1)
        tenths == (m \div 100) * 10 + down + (IF up THEN 1 ELSE 0)
    IN  DigitsOf(tenths \div 10) \o <<".">> \o <<Digit[(tenths % 10) + 1]>>

\* the dict returned at lines 75-83 (name and liquidity are not modelled)
Candidate(sym, d, volatility) ==
    [ symbol |-> sym,
      price |-> d["currentPrice"],
      pe |-> get(d, "trailingPE", NA),
      mcap |-> <<"Rs">> \o Format1f(get(d, "marketCap", Num(0)).v) \o <<"C", "r">>,
      volatility |-> volatility ]

\* The provider's answers to the history() calls of one get_volatility call.
ExampleSeries == <<100, 102, 101, 105, 103, 107>>
HistoryRuns ==
    { <<HistRaise, HistRaise, HistRaise>>,
      <<HistRaise, HistOf(<<100, 102, 101, 105>>), HistRaise>>,
      <<HistOf(ExampleSeries), HistRaise, HistRaise>> }

FilterSymbols == {Ticker(1, ".NS"), Ticker(1, "")}

\* no call of filter_cheap_stocks is under way
FilterIdle ==
    /\ fpc = "idle"
    /\ symbol = Ticker(0, "")
    /\ vi = 1
    /\ info = NoInfo
    /\ outcome = "none"
    /\ qualified = "none"
    /\ late = FALSE
    /\ result = NoValue

\* the bookkeeping of one lookup
Looked(ans, how) ==
    /\ info' = ans.info
    /\ outcome' = how
    /\ late' = (late \/ qualified # "none")
    /\ qualified' = IF qualified = "none" /\ ans.ok /\ HasEssentials(ans.info)
                      THEN how ELSE qualified

\* One iteration that ends without a candidate: the lookup raised, a key was
\* missing, the price gate failed, a comparison raised, or fewer than two
\* filters held (lines 58-59, 62-63, 74, 85-87).
TryContinue ==
    /\ fpc = "loop"
    /\ vi <= 4
    /\ \E ans \in InfoAnswers :
         /\ TryVariant(ans) # "admitted"
         /\ Looked(ans, TryVariant(ans))
    /\ fpc' = "tried"
    /\ UNCHANGED <<symbol, vi, result>>
    /\ UNCHANGED <<volVars, scanVars>>

\* back to the head of the for loop: the iteration's stock and info are dead
NextVariant ==
    /\ fpc = "tried"
    /\ fpc' = "loop"
    /\ vi' = vi + 1
    /\ info' = NoInfo
    /\ outcome' = "none"
    /\ UNCHANGED <<symbol, qualified, late, result>>
    /\ UNCHANGED <<volVars, scanVars>>

\* One iteration that returns the candidate (lines 74-83).
TryAdmit ==
    /\ fpc = "loop"
    /\ vi <= 4
    /\ \E ans \in InfoAnswers :
         /\ TryVariant(ans) = "admitted"
         /\ Looked(ans, "admitted")
         /\ \E run \in HistoryRuns :
              result' = Candidate(symbol, ans.info, get_volatility(run))
    /\ fpc' = "returned"
    /\ UNCHANGED <<symbol, vi>>
    /\ UNCHANGED <<volVars, scanVars>>

\* The loop is exhausted: return None (line 89).
ReturnNone ==
    /\ fpc = "loop"
    /\ vi = 5
    /\ result' = None
    /\ fpc' = "returned"
    /\ UNCHANGED <<symbol, vi, info, outcome, qualified, late>>
    /\ UNCHANGED <<volVars, scanVars>>

FilterNext ==
    \/ TryContinue
    \/ NextVariant
    \/ TryAdmit
    \/ ReturnNone

\* filter_cheap_stocks as a function of the provider's answers: `answers` are
\* the lookups of the four variants, `run` the history() calls.
RECURSIVE FilterFrom(_, _, _, _)
FilterFrom(sym, answers, run, n) ==
    IF n > 4 THEN None
    ELSE IF TryVariant(answers[n]) = "admitted"
           THEN Candidate(sym, answers[n].info, get_volatility(run))
           ELSE FilterFrom(sym, answers, run, n + 1)

filter_cheap_stocks(sym, quote) == FilterFrom(sym, quote.info, quote.history, 1)

---------------------------------------------------------------------------
(* generate_detailed_analysis (stock_fetcher.py:146-237) *)

RECURSIVE RemoveAll(_, _)
RemoveAll(s, c) ==
    IF s = <<>> THEN <<>>
    ELSE IF Head(s) = c THEN RemoveAll(Tail(s), c)
    ELSE <<Head(s)>> \o RemoveAll(Tail(s), c)

\* str.replace('Cr', '')
RECURSIVE RemoveCr(_)
RemoveCr(s) ==
    IF Len(s) < 2 THEN s
    ELSE IF s[1] = "C" /\ s[2] = "r" THEN RemoveCr(Tail(Tail(s)))
    ELSE <<Head(s)>> \o RemoveCr(Tail(s))

\* str.strip()
RECURSIVE LStrip(_)
LStrip(s) == IF s # <<>> /\ Head(s) = " " THEN LStrip(Tail(s)) ELSE s

RECURSIVE RStrip(_)
RStrip(s) ==
    IF s # <<>> /\ s[Len(s)] = " " THEN RStrip(SubSeq(s, 1, Len(s) - 1)) ELSE s

strip(s) == RStrip(LStrip(s))

IsDigit(c) == \E d \in 1..10 : Digit[d] = c
DigitVal(c) == (CHOOSE d \in 1..10 : Digit[d] = c) - 1

RECURSIVE NatOf(_)
NatOf(s) ==
    IF s = <<>> THEN 0
    ELSE NatOf(SubSeq(s, 1, Len(s) - 1)) * 10 + DigitVal(s[Len(s)])

Unsigned(s) == IF s # <<>> /\ Head(s) \in {"+", "-"} THEN Tail(s) ELSE s

\* whether float(s) accepts s: an optional sign, digits with at most one
\* point, at least one digit (exponents, inf and nan are not in the alphabet
\* of the model); anything else, a thousands comma included, is a ValueError
FloatAccepts(s) ==
    LET u == Unsigned(s)
    IN  /\ \E j \in 1..Len(u) : IsDigit(u[j])
        /\ \A j \in 1..Len(u) : IsDigit(u[j]) \/ u[j] = "."
        /\ Cardinality({j \in 1..Len(u) : u[j] = "."}) <= 1

\* float(s) in hundredths, for an s that float accepts
FloatOf(s) ==
    LET u == Unsigned(s)
        dot == IF \E j \in 1..Len(u) : u[j] = "."
                 THEN CHOOSE j \in 1..Len(u) : u[j] = "." ELSE Len(u) + 1
        frac == SubSeq(u \o <<"0", "0">>, dot + 1, dot + 2)
        mag == NatOf(SubSeq(u, 1, dot - 1)) * 100 + NatOf(frac)
    IN  IF s # <<>> /\ Head(s) = "-" THEN 0 - mag ELSE mag

\* stock['mcap'].replace(currency sign, '').replace('Cr', '').strip()
McapText(mcap) == strip(RemoveCr(RemoveAll(mcap, "Rs")))

pe_assessment(pe) ==
    IF pe < 600 THEN "Strongly Undervalued"
    ELSE IF pe < 800 THEN "Moderately Undervalued"
    ELSE IF pe <= 1500 THEN "Fairly Valued"
    ELSE IF pe <= 2500 THEN "Overvalued"
    ELSE "Highly Overvalued"

volatility_risk(v) ==
    IF v < 1500 THEN "Very Low"
    ELSE IF v < 2000 THEN "Low"
    ELSE IF v <= 3500 THEN "Moderate"
    ELSE IF v <= 5000 THEN "High"
    ELSE "Extreme"

mcap_assessment(m) ==
    IF m > 10000000 THEN "Mega Cap"
    ELSE IF m > 2000000 THEN "Large Cap"
    ELSE IF m > 500000 THEN "Mid Cap"
    ELSE IF m > 50000 THEN "Small Cap"
    ELSE "Micro Cap"

\* a faulty variant of Recommendation: no fifth outcome
RecommendationFourWay(pe, v, m) ==
    IF pe < 800 /\ v < 2500 /\ m > 500000 THEN "Strong Buy"
    ELSE IF pe < 1200 /\ v < 3500 THEN "Accumulate"
    ELSE IF pe < 1800 THEN "Watchlist"
    ELSE "Avoid"

\* the recommendation of lines 227-231
Recommendation(pe, v, m) ==
    IF pe < 800 /\ v < 2500 /\ m > 500000 THEN "Strong Buy"
    ELSE IF pe < 1200 /\ v < 3500 THEN "Accumulate"
    ELSE IF pe < 1800 THEN "Watchlist"
    ELSE IF v > 5000 THEN "Avoid"
    ELSE "High Risk Speculative"

RaisedReport == [raised |-> TRUE]

\* The report, or RaisedReport when the function raises: a comparison of a
\* non-number (lines 149, 158), float() of the market-cap text (line 166), or
\* the :.2f format of a non-number (line 208).
generate_detailed_analysis(stock) ==
    IF ~IsNum(stock.pe) \/ ~IsNum(stock.volatility) THEN RaisedReport
    ELSE IF ~FloatAccepts(McapText(stock.mcap)) THEN RaisedReport
    ELSE IF ~IsNum(stock.price) THEN RaisedReport
    ELSE LET m == FloatOf(McapText(stock.mcap))
         IN  [ raised |-> FALSE,
               valuation |-> pe_assessment(stock.pe.v),
               risk |-> volatility_risk(stock.volatility.v),
               cap |-> mcap_assessment(m),
               recommendation |-> Recommendation(stock.pe.v, stock.volatility.v, m) ]

---------------------------------------------------------------------------
(* get_cheap_stocks (stock_fetcher.py:100-144) and bot.py:86-97 *)

MaxSymbols == 5
MaxLimit == 2
\* The code's batch_size is 50 and its pool has 8 workers; the model runs the
\* same loop with a small batch and a small pool, so that a universe of
\* MaxSymbols symbols spans several batches and a batch outnumbers the pool.
batch_size == 2
max_workers == 2

Min(a, b) == IF a <= b THEN a ELSE b
Max(a, b) == IF a >= b THEN a ELSE b

\* fetch_nse_symbols(): n symbols, each with the ".NS" suffix
Universe(n) == [j \in 1..n |-> Ticker(j, ".NS")]

\* The provider's answers for one symbol: the lookups of its four variants and
\* the history() calls of its get_volatility.
Good(price, pe, mc) ==
    LookupOk([currentPrice |-> Num(price), trailingPE |-> Num(pe),
              debtToEquity |-> Num(30), returnOnEquity |-> Num(8),
              currentRatio |-> Num(120), marketCap |-> Num(mc)])

\* every lookup of the symbol fails: no candidate
QuoteNone ==
    [info |-> <<LookupFail, LookupFail, LookupFail, LookupFail>>,
     history |-> <<HistRaise, HistRaise, HistRaise>>]

\* the symbol as given is admitted at P/E 10, price 50
QuoteGiven ==
    [info |-> <<Good(5000, 1000, 600000), LookupFail, LookupFail, LookupFail>>,
     history |-> <<HistOf(ExampleSeries), HistRaise, HistRaise>>]

\* the ".BO" variant is admitted at P/E 10, price 60
QuoteBSE ==
    [info |-> <<Good(15000, 1000, 1000), LookupFail, Good(6000, 1000, 1000), LookupFail>>,
     history |-> <<HistRaise, HistOf(<<100, 102, 101, 105>>), HistRaise>>]

\* the stripped variant is admitted at P/E 7, price 95
QuoteStripped ==
    [info |-> <<LookupOk([currentPrice |-> Num(9500)]), Good(9500, 700, 40000),
                LookupFail, LookupFail>>,
     history |-> <<HistRaise, HistRaise, HistRaise>>]

Quotes == {QuoteNone, QuoteGiven, QuoteBSE, QuoteStripped}

\* what the provider may answer for the symbol at universe position j
QuotesAt(j) ==
    IF j % 2 = 1 THEN {QuoteNone, QuoteGiven, QuoteBSE}
    ELSE {QuoteNone, QuoteGiven, QuoteStripped}

\* the hardcoded candidate of lines 107-114
Fallback ==
    [ symbol |-> Ticker(0, ".NS"),
      price |-> Num(9550),
      pe |-> Num(1230),
      volatility |-> Num(2550),
      mcap |-> <<"Rs", "1", ",", "0", "0", "0", "C", "r">> ]

\* the sort key of lines 133-136: (float(pe), -price)
SortKey(x) == <<get(x, "pe", PosInf).v, 0 - get(x, "price", Num(0)).v>>
KeyLess(a, b) == a[1] < b[1] \/ (a[1] = b[1] /\ a[2] < b[2])

\* list.sort is stable: x goes after every element whose key is not greater
RECURSIVE InsertSorted(_, _)
InsertSorted(s, x) ==
    IF s = <<>> THEN <<x>>
    ELSE IF KeyLess(SortKey(x), SortKey(Head(s))) THEN <<x>> \o s
    ELSE <<Head(s)>> \o InsertSorted(Tail(s), x)

RECURSIVE SortFrom(_, _)
SortFrom(done, todo) ==
    IF todo = <<>> THEN done
    ELSE SortFrom(InsertSorted(done, Head(todo)), Tail(todo))

\* a faulty variant of sort: the list is left as collected
Unsorted(s) == s

\* results.sort(key=...)
sort(s) == SortFrom(<<>>, s)

\* a faulty variant of Slice: no truncation
Untruncated(s, n) == s

\* results[:limit], with Python's meaning of a negative limit
Slice(s, n) ==
    IF n >= 0 THEN SubSeq(s, 1, Min(n, Len(s)))
    ELSE SubSeq(s, 1, Max(Len(s) + n, 0))

\* a faulty variant of Enough: len(results) > limit * 3
EnoughLate(n, lim) == n > lim * 3

\* len(results) >= limit * 3
Enough(n, lim) == n >= lim * 3

\* no call of get_cheap_stocks is under way
ScanIdle ==
    /\ pc = "idle"
    /\ symbols = <<>>
    /\ provider = <<>>
    /\ limit = 0
    /\ i = 0
    /\ tasks = <<>>
    /\ completed = <<>>
    /\ started = {}
    /\ results = <<>>
    /\ ret = <<>>
    /\ reports = <<>>

\* symbols[i:i + batch_size], as positions of the universe
BatchEnd(syms, off) == Min(off + batch_size, Len(syms))
BatchLen(syms, off) == BatchEnd(syms, off) - off

\* a faulty variant of MapOrder: the order the futures complete in, as
\* as_completed would give
CompletionOrder(n, done) == done

\* executor.map yields the results in the order of the batch, whatever the
\* order the futures complete in
MapOrder(n, done) == [p \in 1..n |-> p]

NotNone(r) == r # None

\* list(filter(None, executor.map(filter_cheap_stocks, batch)))
BatchResults(syms, quotes, off, done) ==
    LET order == MapOrder(BatchLen(syms, off), done)
        all == [p \in 1..Len(order) |->
                   filter_cheap_stocks(syms[off + order[p]], quotes[off + order[p]])]
    IN  SelectSeq(all, NotNone)

Limits == (0 - 1)..MaxLimit

Init ==
    /\ pc = "fetch"
    /\ \E n \in 0..MaxSymbols :
         /\ symbols = Universe(n)
         /\ provider \in {f \in [1..n -> Quotes] : \A j \in 1..n : f[j] \in QuotesAt(j)}
    /\ limit \in Limits
    /\ i = 0
    /\ tasks = <<>>
    /\ completed = <<>>
    /\ started = {}
    /\ results = <<>>
    /\ ret = <<>>
    /\ reports = <<>>
    /\ VolIdle
    /\ FilterIdle

\* `if not symbols`: return the fallback list (lines 105-114)
ReturnFallback ==
    /\ pc = "fetch"
    /\ symbols = <<>>
    /\ ret' = <<Fallback>>
    /\ pc' = "done"
    /\ UNCHANGED <<symbols, limit, provider, i, tasks, completed, started,
                   results, reports>>
    /\ UNCHANGED <<volVars, filterVars>>

\* the universe is not empty: enter the batch loop (lines 117-122)
EnterLoop ==
    /\ pc = "fetch"
    /\ symbols # <<>>
    /\ pc' = "batch"
    /\ UNCHANGED <<symbols, limit, provider, i, tasks, completed, started,
                   results, ret, reports>>
    /\ UNCHANGED <<volVars, filterVars>>

\* executor.map submits every symbol of the batch (lines 123-124)
SubmitBatch ==
    /\ pc = "batch"
    /\ tasks' = [p \in 1..BatchLen(symbols, i) |-> "queued"]
    /\ completed' = <<>>
    /\ pc' = "running"
    /\ UNCHANGED <<symbols, limit, provider, i, started, results, ret, reports>>
    /\ UNCHANGED <<volVars, filterVars>>

\* an idle worker takes the first queued call
StartTask(p) ==
    /\ pc = "running"
    /\ tasks[p] = "queued"
    /\ \A q \in 1..(p - 1) : tasks[q] # "queued"
    /\ Cardinality({q \in DOMAIN tasks : tasks[q] = "running"}) < max_workers
    /\ tasks' = [tasks EXCEPT ![p] = "running"]
    /\ started' = started \cup {i + p}
    /\ UNCHANGED <<pc, symbols, limit, provider, i, completed, results, ret, reports>>
    /\ UNCHANGED <<volVars, filterVars>>

\* a running call of filter_cheap_stocks returns
FinishTask(p) ==
    /\ pc = "running"
    /\ tasks[p] = "running"
    /\ tasks' = [tasks EXCEPT ![p] = "done"]
    /\ completed' = Append(completed, p)
    /\ UNCHANGED <<pc, symbols, limit, provider, i, started, results, ret, reports>>
    /\ UNCHANGED <<volVars, filterVars>>

\* every future is done: the batch's candidates are appended, and the loop
\* breaks or goes on to the next offset (lines 124-129)
CollectBatch ==
    /\ pc = "running"
    /\ \A p \in DOMAIN tasks : tasks[p] = "done"
    /\ results' = results \o BatchResults(symbols, provider, i, completed)
    /\ IF Enough(Len(results'), limit) \/ i + batch_size >= Len(symbols)
         THEN pc' = "sort" /\ UNCHANGED i
         ELSE pc' = "batch" /\ i' = i + batch_size
    /\ UNCHANGED <<symbols, limit, provider, tasks, completed, started, ret, reports>>
    /\ UNCHANGED <<volVars, filterVars>>

\* sort and truncate, or return the empty list (lines 132-140)
SortAndReturn ==
    /\ pc = "sort"
    /\ IF results # <<>>
         THEN /\ results' = sort(results)
              /\ ret' = Slice(results', limit)
         ELSE /\ ret' = <<>>
              /\ UNCHANGED results
    /\ pc' = "done"
    /\ UNCHANGED <<symbols, limit, provider, i, tasks, completed, started, reports>>
    /\ UNCHANGED <<volVars, filterVars>>

\* bot.py:86-97: the analysis of the next returned stock; an exception is
\* caught and logged
Analyse ==
    /\ pc = "done"
    /\ Len(reports) < Len(ret)
    /\ reports' = Append(reports, generate_detailed_analysis(ret[Len(reports) + 1]))
    /\ UNCHANGED <<pc, symbols, limit, provider, i, tasks, completed, started,
                   results, ret>>
    /\ UNCHANGED <<volVars, filterVars>>

Next ==
    \/ ReturnFallback
    \/ EnterLoop
    \/ SubmitBatch
    \/ \E p \in DOMAIN tasks : StartTask(p)
    \/ \E p \in DOMAIN tasks : FinishTask(p)
    \/ CollectBatch
    \/ SortAndReturn
    \/ Analyse

Spec == Init /\ [][Next]_vars

---------------------------------------------------------------------------
(* The other entry points *)

\* get_volatility(stock_ticker): the thread runs the call to its return.
VolInit ==
    /\ vpc = "loop"
    /\ attempt = 0
    /\ calls = <<>>
    /\ hist = HistRaise
    /\ vol = NoValue
    /\ FilterIdle
    /\ ScanIdle

VolSpec == VolInit /\ [][VolNext]_vars /\ WF_vars(VolNext)

\* filter_cheap_stocks(symbol)
FilterInit ==
    /\ fpc = "loop"
    /\ symbol \in FilterSymbols
    /\ vi = 1
    /\ info = NoInfo
    /\ outcome = "none"
    /\ qualified = "none"
    /\ late = FALSE
    /\ result = NoValue
    /\ VolIdle
    /\ ScanIdle

FilterSpec == FilterInit /\ [][FilterNext]_vars

\* generate_detailed_analysis(stock) for a stock of any P/E, volatility and
\* market-cap text: bot.py's loop over a one-element list
FormatPE == {500, 600, 799, 800, 1199, 1200, 1799, 1800, 2600}
FormatVolatility == {0, 1400, 2499, 2500, 3499, 3500, 5000, 5010}
FormatMcap ==
    { <<"Rs">> \o Format1f(m) \o <<"C", "r">> : m \in {0, 40000, 500000, 500010} }
        \cup {Fallback.mcap}

FormatInit ==
    /\ pc = "done"
    /\ \E pe \in FormatPE, v \in FormatVolatility, m \in FormatMcap :
         ret = << [symbol |-> Ticker(1, ".NS"), price |-> Num(5000),
                   pe |-> Num(pe), volatility |-> Num(v), mcap |-> m] >>
    /\ symbols = <<>>
    /\ provider = <<>>
    /\ limit = 1
    /\ i = 0
    /\ tasks = <<>>
    /\ completed = <<>>
    /\ started = {}
    /\ results = <<>>
    /\ reports = <<>>
    /\ VolIdle
    /\ FilterIdle

FormatSpec == FormatInit /\ [][Analyse]_vars

---------------------------------------------------------------------------
(* Properties *)

\* C1: a Candidate returned by filter_cheap_stocks records a price strictly
\* greater than 10 and strictly less than 100.
C1_AdmittedPriceInsideGate ==
    (fpc = "returned" /\ result # None) =>
        /\ IsNum(result.price)
        /\ 1000 < result.price.v
        /\ result.price.v < 10000

\* a candidate was returned at the lowest price of the model inside the gate
C1_AdmittedJustInside ==
    /\ fpc = "returned"
    /\ result # None
    /\ result.price = Num(1001)
    /\ outcome = "admitted"

\* a provider value with the documented default in place of an omitted or
\* null field
Defaulted(d, key, default) ==
    IF key \in DOMAIN d /\ d[key] # None THEN d[key] ELSE default

\* how many of the five documented criteria hold
DocumentedCount(d) ==
    Cardinality(
        {j \in 1..5 :
            << Lt(Defaulted(d, "trailingPE", PosInf), 4500),
               Lt(Defaulted(d, "debtToEquity", Num(200)), 200),
               Gt(Defaulted(d, "returnOnEquity", Num(0)), 5),
               Gt(Defaulted(d, "currentRatio", Num(80)), 60),
               Gt(Defaulted(d, "marketCap", Num(0)), 300) >>[j]})

\* the last lookup succeeded with a current price and a trailing P/E, the
\* price strictly between 10 and 100
Evaluated ==
    /\ outcome \notin {"none", "lookup_failed"}
    /\ HasEssentials(info)
    /\ IsNum(info["currentPrice"])
    /\ IsNum(info["trailingPE"])
    /\ 1000 < info["currentPrice"].v
    /\ info["currentPrice"].v < 10000

\* C2: on every evaluated snapshot the filter admits iff at least 2 of the 5
\* criteria hold with the documented defaults for omitted or null fields, and
\* an omitted or null field never raises nor skips the snapshot.
C2_AdmitsIffTwoOfFive ==
    Evaluated =>
        /\ outcome # "raised"
        /\ (outcome = "admitted") <=> (DocumentedCount(info) >= 2)

\* C3: once a variant has both essential keys, no later variant is looked up,
\* and a rejection on it (price gate or 2-of-5 rule) is the symbol's decision.
C3_FirstQualifyingVariantDecides ==
    /\ ~late
    /\ (fpc = "returned" /\ qualified \in {"gate", "rejected"}) => result = None

\* what holds of get_volatility in every state
VolatilitySafe ==
    /\ Len(calls) <= 3
    /\ \A j \in 1..(Len(calls) - 1) : calls[j] = -1
    /\ (calls # <<>> /\ calls[Len(calls)] >= 0) => vpc = "returned"
    /\ (vpc = "returned") =>
          /\ IsNum(vol)
          /\ (\A j \in 1..Len(calls) : calls[j] < 5) => vol = Num(0)

\* C7: get_volatility terminates with a number: at most 3 history() calls, a
\* retry only after a call that raised, the first call that returns ends the
\* retrying, and the result is 0.0 unless a call returned at least 5 rows.
C7_VolatilityReturns == []VolatilitySafe /\ <>(vpc = "returned")

\* two calls raised and the third returned a series of 4 closes that move
C7_ShortSeriesAfterRetries ==
    /\ vpc = "returned"
    /\ calls = <<-1, -1, 4>>
    /\ hist.close = <<100, 110, 100, 110>>
    /\ vol = Num(0)

FourOutcomes == {"Strong Buy", "Accumulate", "Watchlist", "Avoid"}

\* C8 as stated: every recommendation is one of Strong Buy, Accumulate,
\* Watchlist, Avoid.
C8_OneOfFourOutcomes ==
    \A k \in 1..Len(reports) :
        ~reports[k].raised => reports[k].recommendation \in FourOutcomes

\* C8 as amended: every recommendation is one of those four or High Risk
\* Speculative; High Risk Speculative exactly when P/E >= 18 and volatility
\* <= 50, Avoid exactly when P/E >= 18 and volatility > 50.
C8_OneOfFiveOutcomes ==
    \A k \in 1..Len(reports) :
        ~reports[k].raised =>
            LET rec == reports[k].recommendation
                pe == ret[k].pe.v
                v == ret[k].volatility.v
            IN  /\ rec \in FourOutcomes \cup {"High Risk Speculative"}
                /\ (rec = "High Risk Speculative") <=> (pe >= 1800 /\ v <= 5000)
                /\ (rec = "Avoid") <=> (pe >= 1800 /\ v > 5000)

\* a report recommends High Risk Speculative
C8_FifthOutcomeEmitted ==
    /\ reports # <<>>
    /\ ~reports[1].raised
    /\ reports[1].recommendation = "High Risk Speculative"
    /\ ret[1].pe.v = 1800

\* C4: the returned list is sorted: a.pe < b.pe, or a.pe = b.pe and
\* a.price >= b.price, for every adjacent pair (a, b).
C4_ReturnSorted ==
    (pc = "done") =>
        \A k \in 1..(Len(ret) - 1) :
            \/ ret[k].pe.v < ret[k + 1].pe.v
            \/ (ret[k].pe.v = ret[k + 1].pe.v /\ ret[k].price.v >= ret[k + 1].price.v)

\* the sort moved a later symbol ahead of an earlier one, on a P/E tie broken
\* by price
C4_TieBrokenByPrice ==
    /\ pc = "done"
    /\ Len(ret) >= 2
    /\ ret[1].pe = ret[2].pe
    /\ ret[1].price.v > ret[2].price.v
    /\ ret[1].symbol.base > ret[2].symbol.base

\* C5 as stated: for every limit the returned list has at most limit elements.
C5_AtMostLimit == (pc = "done") => Len(ret) <= limit

\* C5 as amended: at most limit elements for every limit >= 1, and for limit 0
\* when the universe is not empty; the empty universe returns the one fallback
\* candidate whatever the limit.
C5_AtMostLimitWhenPositive ==
    /\ (pc = "done" /\ (limit >= 1 \/ (limit = 0 /\ symbols # <<>>))) =>
          Len(ret) <= limit
    /\ (pc = "done" /\ symbols = <<>>) => ret = <<Fallback>>

\* more candidates were collected than the limit, and the list was cut
C5_Truncated ==
    /\ pc = "done"
    /\ limit = 1
    /\ Len(results) > 1
    /\ Len(ret) = 1

\* the offset of the batch that holds universe position s
BatchStart(s) == ((s - 1) \div batch_size) * batch_size

\* the candidates collected from universe positions 1..off
CollectedUpTo(off) ==
    Cardinality({k \in 1..Len(results) : results[k].symbol.base <= off})

\* C6: batches of batch_size consecutive symbols in universe order; a batch
\* starts only when the previous one is wholly collected; no evaluation starts
\* in a batch that follows one completed with 3 * limit candidates or more;
\* below 3 * limit, with symbols left, the next batch is issued.
C6_BatchesAndEarlyExit ==
    /\ i % batch_size = 0
    /\ started \subseteq 1..BatchEnd(symbols, i)
    /\ 1..i \subseteq started
    /\ (pc = "running") => DOMAIN tasks = 1..BatchLen(symbols, i)
    /\ (pc = "batch") =>
          /\ started = 1..i
          /\ \A p \in DOMAIN tasks : tasks[p] = "done"
    /\ \A s \in started :
          BatchStart(s) > 0 => CollectedUpTo(BatchStart(s)) < 3 * limit
    /\ (pc \in {"sort", "done"} /\ symbols # <<>>) =>
          \/ Len(results) >= 3 * limit
          \/ started = 1..Len(symbols)

\* the scan stopped after its second batch with 3 * limit candidates and
\* symbols never evaluated
C6_EarlyExitTaken ==
    /\ pc = "done"
    /\ limit = 1
    /\ i = batch_size
    /\ Len(results) >= 3
    /\ started # 1..Len(symbols)

\* the scan run one symbol after the other, batch by batch
RECURSIVE ScanFrom(_, _, _, _, _)
ScanFrom(syms, quotes, lim, off, acc) ==
    LET found == [p \in 1..BatchLen(syms, off) |->
                     filter_cheap_stocks(syms[off + p], quotes[off + p])]
        all == acc \o SelectSeq(found, NotNone)
    IN  IF Enough(Len(all), lim) \/ off + batch_size >= Len(syms) THEN all
        ELSE ScanFrom(syms, quotes, lim, off + batch_size, all)

SequentialResults(syms, quotes, lim) == ScanFrom(syms, quotes, lim, 0, <<>>)

SequentialReturn(syms, quotes, lim) ==
    IF syms = <<>> THEN <<Fallback>>
    ELSE Slice(sort(SequentialResults(syms, quotes, lim)), lim)

\* C9: for a fixed universe, limit and provider answers, the candidates
\* collected and the list returned are those of the sequential scan, whatever
\* order the workers complete in.
C9_CompletionOrderIrrelevant ==
    /\ (pc = "sort") => results = SequentialResults(symbols, provider, limit)
    /\ (pc = "done") => ret = SequentialReturn(symbols, provider, limit)

\* two candidates tied on P/E and price were returned from a batch whose
\* second call completed first
C9_TieCompletedOutOfOrder ==
    /\ pc = "done"
    /\ Len(ret) >= 2
    /\ ret[1].pe = ret[2].pe
    /\ ret[1].price = ret[2].price
    /\ Len(completed) >= 2
    /\ completed[1] > completed[2]
    /\ i = 0

\* the shape generate_detailed_analysis requires of a stock
FormatsCleanly(stock) ==
    /\ IsNum(stock.price)
    /\ IsNum(stock.pe)
    /\ IsNum(stock.volatility)
    /\ FloatAccepts(McapText(stock.mcap))

\* C10: every candidate get_cheap_stocks returns, the fallback included, has
\* numeric price, P/E and volatility and a market-cap text that parses, and
\* its analysis completes without raising.
C10_ReturnedCandidatesFormat ==
    /\ (pc = "done") => \A k \in 1..Len(ret) : FormatsCleanly(ret[k])
    /\ \A k \in 1..Len(reports) : ~reports[k].raised

=============================================================================
